---- MODULE Spec2Model ----
(***************************************************************************)
(* Model of the PubMed v2 pipeline: record extraction, partition routing,  *)
(* partitioned parquet output, the worker pool and the run metadata, for   *)
(* both entry points:                                                      *)
(*   stages_v2/download_and_process_baseline.py   (path "xml")             *)
(*   stages_v2/reprocess_parquet.py               (path "parquet")         *)
(*                                                                         *)
(* Representation of Python values:                                        *)
(*   None / a value      <<>> / <<v>>                                      *)
(*   str                 a tuple of one-character strings                  *)
(*   dict keyed by year  a function whose DOMAIN is the set of keys        *)
(*   a JSON text         [fmt |-> "json", valid, doc]: whether the text    *)
(*                       parses and the document it denotes                *)
(*   an XML element      a record of the children the extractor reads      *)
(*   a JSON value        [t |-> "str", s], [t |-> "list", items] or        *)
(*                       [t |-> "dict", d], d a function from the keys     *)
(*                                                                         *)
(* Spec is a run of main() over the file list; ExtractSpec applies the two *)
(* extractors to one record each.                                          *)
(***************************************************************************)
EXTENDS Integers, Sequences, FiniteSets, TLC

VARIABLES
    path,          \* which script runs: "xml" or "parquet"
    content,       \* content[f]: the source file's record stream in this run
    run,           \* number of the current invocation of main()
    task,          \* task[f]: state of the future submitted for file f
    store,         \* output tree: path of a partition file -> its rows
    total_records, \* main(): running total
    year_totals,   \* main(): running per-year totals
    log,           \* main(): the lines printed by the collection loop
    metadata,      \* metadata.json: None or the record last written
    meta_writes,   \* number of writes of metadata.json in this run
    pc,            \* main(): "collect" or "done"
    writers,       \* history: output path -> the files whose task wrote it
    first_run,     \* history: per file, the run and the partition files
                   \* left by its first successful task
    summary,       \* main(): the lines printed after the collection loop
    wrote,         \* history: per file, the rows its task has written into
                   \* partition files in the current run
    article_elem,  \* the PubmedArticle element given to extract_article_fields
    blob,          \* the (PMID, JSON) pair given to extract_fields
    xml_out,       \* None, or what extract_article_fields returned for article_elem
    json_out       \* None, or what extract_fields returned for blob

\* the state of a run of main(), and the state of one call of an extractor
pipeline == <<path, content, run, task, store, total_records, year_totals,
              log, metadata, meta_writes, pc, writers, first_run, summary,
              wrote>>
extraction == <<article_elem, blob, xml_out, json_out>>

vars == <<pipeline, extraction>>

\* ---------------------------------------------------------------- bounds

NumFiles   == 2
MaxRecs    == 2
MaxRuns    == 2
MaxWorkers == 2
MaxItems   == 2

Files == 1..NumFiles

\* ------------------------------------------------------- Python values

None == <<>>
Some(v) == <<v>>

Digits == {"0", "1", "2", "3", "4", "5", "6", "7", "8", "9"}
Whitespace == {" "}

DigitVal(c) ==
    CASE c = "0" -> 0 [] c = "1" -> 1 [] c = "2" -> 2 [] c = "3" -> 3
      [] c = "4" -> 4 [] c = "5" -> 5 [] c = "6" -> 6 [] c = "7" -> 7
      [] c = "8" -> 8 [] c = "9" -> 9

\* str.isdigit(): non-empty and every character a digit
isdigit(s) == Len(s) > 0 /\ \A i \in 1..Len(s) : s[i] \in Digits

\* value of a string of decimal digits
RECURSIVE DecVal(_)
DecVal(s) ==
    IF s = <<>> THEN 0
    ELSE 10 * DecVal(SubSeq(s, 1, Len(s) - 1)) + DigitVal(s[Len(s)])

\* str.strip()
RECURSIVE strip(_)
strip(s) ==
    IF s = <<>> THEN s
    ELSE IF s[1] \in Whitespace THEN strip(Tail(s))
    ELSE IF s[Len(s)] \in Whitespace THEN strip(SubSeq(s, 1, Len(s) - 1))
    ELSE s

\* int(s) on a str: surrounding whitespace and one sign are accepted,
\* anything else than digits raises ValueError (ok = FALSE). The texts of
\* the model hold no underscore and no non-ASCII digit.
int(s) ==
    LET t == strip(s)
        signed == t # <<>> /\ t[1] \in {"+", "-"}
        d == IF signed THEN Tail(t) ELSE t
    IN  IF isdigit(d)
        THEN [ok |-> TRUE,
              val |-> IF signed /\ t[1] = "-" THEN 0 - DecVal(d) ELSE DecVal(d)]
        ELSE [ok |-> FALSE, val |-> 0]

\* s[:n]
prefix(s, n) == SubSeq(s, 1, IF Len(s) < n THEN Len(s) ELSE n)

\* ------------------------------------------- the XML extraction path

\* json.dumps of the dict of extracted fields: a JSON text that always
\* parses, denoting that dict
json_dumps(d) == [fmt |-> "json", valid |-> TRUE, doc |-> d]

\* Year of extract_article_fields
xml_year(elem) ==
    IF ~elem.article \/ elem.pub_date = None THEN None
    ELSE
        LET pub_date == elem.pub_date[1]
            ytext == pub_date.Year
            parsed == IF ytext # None /\ ytext[1] # <<>>
                      THEN int(ytext[1]) ELSE [ok |-> FALSE, val |-> 0]
            year == IF parsed.ok THEN Some(parsed.val) ELSE None
            md == pub_date.MedlineDate
        IN  IF year # None THEN year
            ELSE IF md # None /\ md[1] # <<>>
                    /\ Len(md[1]) >= 4 /\ isdigit(prefix(md[1], 4))
                 THEN Some(DecVal(prefix(md[1], 4)))
                 ELSE None

\* the dict returned at the end of extract_article_fields
article_row(pmid, year) ==
    [PMID |-> pmid, Year |-> year,
     JSON |-> json_dumps([PMID |-> pmid, Year |-> year])]

\* extract_article_fields: Some(row), or None when MedlineCitation is
\* missing or when anything in the body raises (the blanket except)
extract_article_fields(elem) ==
    IF ~elem.medline THEN None
    ELSE
        LET pmid == IF elem.pmid # None /\ elem.pmid[1] # <<>>
                    THEN int(elem.pmid[1]) ELSE [ok |-> TRUE, val |-> 0]
        IN  IF ~pmid.ok THEN None
            ELSE Some(article_row(pmid.val, xml_year(elem)))

\* --------------------------------------- the parquet extraction path

\* json.loads: JSONDecodeError on a text that does not parse
json_loads(json_str) ==
    IF json_str.valid THEN [ok |-> TRUE, data |-> json_str.doc]
    ELSE [ok |-> FALSE, data |-> [t |-> "none"]]

\* safe_get(d, *keys) on the leaf the keys lead to: the value when it is
\* there and truthy, else the default ''
safe_get(leaf) == IF leaf = None \/ leaf[1] = <<>> THEN <<>> ELSE leaf[1]

\* dict.get(key, '')
get(leaf) == IF leaf = None THEN <<>> ELSE leaf[1]

\* mutant: the degraded row stores an empty text, not the blob
degraded_row_blank(pmid, json_str) ==
    [PMID |-> IF isdigit(pmid) THEN DecVal(pmid) ELSE 0,
     Year |-> None,
     JSON |-> [fmt |-> "json", valid |-> FALSE, doc |-> [t |-> "empty"]]]

\* the dict returned when json.loads raises JSONDecodeError
degraded_row(pmid, json_str) ==
    [PMID |-> IF isdigit(pmid) THEN DecVal(pmid) ELSE 0,
     Year |-> None,
     JSON |-> json_str]

\* Year of extract_fields
json_year(data) ==
    IF data.pub_date = None THEN None
    ELSE
        LET pub_date == data.pub_date[1]
            year_str == get(pub_date.Year)
            year == IF year_str # <<>> /\ isdigit(year_str)
                    THEN Some(DecVal(year_str)) ELSE None
            medline_date == get(pub_date.MedlineDate)
        IN  IF year # None /\ year # Some(0) THEN year
            ELSE IF medline_date # <<>> /\ Len(medline_date) >= 4
                    /\ isdigit(prefix(medline_date, 4))
                 THEN Some(DecVal(prefix(medline_date, 4)))
                 ELSE year

\* the dict returned at the end of extract_fields
full_row(pmid, data, json_str) ==
    LET pmid_val == IF safe_get(data.pmid) # <<>> THEN safe_get(data.pmid)
                    ELSE pmid
    IN  [PMID |-> IF isdigit(pmid_val) THEN DecVal(pmid_val) ELSE 0,
         Year |-> json_year(data),
         JSON |-> json_str]

\* extract_fields: a row, or the exception raised. data.get on a document
\* that is not an object (a list, a string, a number, null) raises
\* AttributeError, which nothing catches: only JSONDecodeError is caught.
\* The documents of the model that are objects hold well-shaped children.
extract_fields(pmid, json_str) ==
    LET parsed == json_loads(json_str)
    IN  IF ~parsed.ok
        THEN [raised |-> FALSE, row |-> degraded_row(pmid, json_str)]
        ELSE IF parsed.data.t # "dict"
        THEN [raised |-> TRUE, row |-> degraded_row(pmid, json_str)]
        ELSE [raised |-> FALSE, row |-> full_row(pmid, parsed.data, json_str)]

\* ---------------------------------------------------- text formatting

\* sep.join(parts)
RECURSIVE join(_, _)
join(parts, sep) ==
    IF parts = <<>> THEN <<>>
    ELSE IF Len(parts) = 1 THEN parts[1]
    ELSE parts[1] \o sep \o join(Tail(parts), sep)

\* str.strip(chars): leading and trailing characters of chars are removed
RECURSIVE strip_chars(_, _)
strip_chars(s, chars) ==
    IF s = <<>> THEN s
    ELSE IF s[1] \in chars THEN strip_chars(Tail(s), chars)
    ELSE IF s[Len(s)] \in chars
         THEN strip_chars(SubSeq(s, 1, Len(s) - 1), chars)
    ELSE s

\* the concatenation of a list of lists
RECURSIVE flatten(_)
flatten(lists) ==
    IF lists = <<>> THEN <<>> ELSE Head(lists) \o flatten(Tail(lists))

CommaSpace == <<",", " ">>
ColonSpace == <<":", " ">>
SemiSpace  == <<";", " ">>
Space      == <<" ">>

\* f"{last}, {first}".strip(', ')
author_entry(last, first) ==
    strip_chars(last \o CommaSpace \o first, {",", " "})

\* f"{label}: {text}" if label else text
abstract_part(label, text) ==
    IF label # <<>> THEN label \o ColonSpace \o text ELSE text

\* ------------------------------------- fields of extract_article_fields
\* The element carries, besides medline, article, pmid and pub_date:
\*   abstract     None, or the AbstractText children of Article/Abstract,
\*                each with its Label attribute and its text
\*   pubmed_data  whether PubmedData is there
\*   ids          the ArticleId children of PubmedData/ArticleIdList
\*   ref_ids      the ArticleId elements further down PubmedData, under
\*                ReferenceList, which follows ArticleIdList
\*   authors      the Author elements of Article, each with the text of
\*                its LastName and ForeName children

\* Abstract of extract_article_fields
xml_abstract(e) ==
    IF ~e.article \/ e.abstract = None THEN <<>>
    ELSE LET texts == e.abstract[1]
         IN  join([i \in DOMAIN texts |->
                     abstract_part(get(texts[i].Label), texts[i].text)],
                  Space)

\* for aid in ...: if aid.get('IdType') == 'doi': doi = aid.text or ''; break
RECURSIVE xml_first_doi(_)
xml_first_doi(aids) ==
    IF aids = <<>> THEN <<>>
    ELSE IF Head(aids).IdType = Some(<<"d", "o", "i">>)
         THEN get(Head(aids).text)
    ELSE xml_first_doi(Tail(aids))

\* DOI of extract_article_fields: findall('.//ArticleId') yields every
\* ArticleId below PubmedData in document order
xml_doi(e) ==
    IF ~e.pubmed_data THEN <<>> ELSE xml_first_doi(e.ids \o e.ref_ids)

\* Authors of extract_article_fields
xml_authors(e) ==
    IF ~e.article THEN <<>>
    ELSE LET entry(a) ==
                 LET last == get(a.LastName)
                     first == get(a.ForeName)
                 IN  IF last # <<>> THEN <<author_entry(last, first)>>
                     ELSE <<>>
         IN  join(flatten([i \in DOMAIN e.authors |-> entry(e.authors[i])]),
                  SemiSpace)

\* extract_article_fields with the Abstract, DOI and Authors of its row
extract_article(e) ==
    LET r == extract_article_fields(e)
    IN  IF r = None THEN None
        ELSE Some([PMID |-> r[1].PMID, Year |-> r[1].Year,
                   Abstract |-> xml_abstract(e), DOI |-> xml_doi(e),
                   Authors |-> xml_authors(e)])

\* ------------------------------------------- fields of extract_fields
\* A JSON value below the keys extract_fields navigates is
\*   [t |-> "str",  s |-> the characters]
\*   [t |-> "list", items |-> the items]
\*   [t |-> "dict", d |-> a function from the keys to their values]
\* and the document carries, besides pmid and pub_date, the value (None
\* when a key on the way is missing) that safe_get reaches for
\*   abstract   Article / Abstract / AbstractText
\*   ids        PubmedData / ArticleIdList / ArticleId
\*   authors    Article / AuthorList / Author
\*   mesh       MedlineCitation / MeshHeadingList / MeshHeading
\*   keywords   MedlineCitation / KeywordList / Keyword
\*   pub_types  Article / PublicationTypeList / PublicationType

Str(s)      == [t |-> "str", s |-> s]
List(items) == [t |-> "list", items |-> items]
Dict(d)     == [t |-> "dict", d |-> d]

\* bool(x)
truthy(x) ==
    IF x.t = "str" THEN x.s # <<>>
    ELSE IF x.t = "list" THEN x.items # <<>>
    ELSE DOMAIN x.d # {}

\* str(x): the text itself, or the repr of a dict or list, a text that
\* shows braces or brackets
str(x) ==
    IF x.t = "str" THEN x.s
    ELSE IF x.t = "dict" THEN <<"{", "}">> ELSE <<"[", "]">>

\* d.get(key, default)
dict_get(d, key, default) == IF key \in DOMAIN d.d THEN d.d[key] ELSE default

\* safe_get(d, *keys) on the value the keys lead to: the value when it is
\* there and truthy, else the default ''
safe_get_value(leaf) ==
    IF leaf = None \/ ~truthy(leaf[1]) THEN Str(<<>>) ELSE leaf[1]

\* one item of the AbstractText list
abstract_item(item) ==
    IF item.t = "dict"
    THEN LET label == dict_get(item, "@Label", Str(<<>>))
             text == dict_get(item, "#text", Str(str(item)))
         IN  abstract_part(str(label), str(text))
    ELSE str(item)

\* Abstract of extract_fields
json_abstract(leaf) ==
    LET abstract_data == safe_get_value(leaf)
        abstract_parts ==
            IF ~truthy(abstract_data) THEN <<>>
            ELSE IF abstract_data.t = "list"
            THEN [i \in DOMAIN abstract_data.items |->
                    abstract_item(abstract_data.items[i])]
            ELSE IF abstract_data.t = "dict"
            THEN <<str(dict_get(abstract_data, "#text",
                                Str(str(abstract_data))))>>
            ELSE <<str(abstract_data)>>
    IN  join(abstract_parts, Space)

Doi == Str(<<"d", "o", "i">>)

\* aid.get('@IdType') == 'doi'
is_doi(aid) ==
    aid.t = "dict" /\ dict_get(aid, "@IdType", Str(<<>>)) = Doi

\* for aid in article_ids: if ...: doi = aid.get('#text', ''); break
RECURSIVE json_first_doi(_)
json_first_doi(aids) ==
    IF aids = <<>> THEN <<>>
    ELSE IF is_doi(Head(aids))
         THEN str(dict_get(Head(aids), "#text", Str(<<>>)))
    ELSE json_first_doi(Tail(aids))

\* DOI of extract_fields
json_doi(leaf) ==
    LET article_ids == safe_get_value(leaf)
    IN  IF ~truthy(article_ids) THEN <<>>
        ELSE IF article_ids.t = "list" THEN json_first_doi(article_ids.items)
        ELSE IF is_doi(article_ids)
             THEN str(dict_get(article_ids, "#text", Str(<<>>)))
        ELSE <<>>

\* the entries one Author object adds to authors
json_author(author) ==
    LET last == dict_get(author, "LastName", Str(<<>>))
        first == dict_get(author, "ForeName", Str(<<>>))
    IN  IF truthy(last) THEN <<author_entry(str(last), str(first))>>
        ELSE <<>>

\* Authors of extract_fields
json_authors(leaf) ==
    LET author_list == safe_get_value(leaf)
        authors ==
            IF ~truthy(author_list) THEN <<>>
            ELSE IF author_list.t = "list"
            THEN flatten([i \in DOMAIN author_list.items |->
                            IF author_list.items[i].t = "dict"
                            THEN json_author(author_list.items[i]) ELSE <<>>])
            ELSE IF author_list.t = "dict" THEN json_author(author_list)
            ELSE <<>>
    IN  join(authors, SemiSpace)

\* MeSH_Terms of extract_fields: a descriptor that is a plain string is
\* taken from a list item, not from a single object
json_mesh(leaf) ==
    LET mesh_list == safe_get_value(leaf)
        term(mesh, in_list) ==
            LET desc == dict_get(mesh, "DescriptorName", Dict(<<>>))
            IN  IF desc.t = "dict"
                THEN <<str(dict_get(desc, "#text", Str(<<>>)))>>
                ELSE IF in_list /\ desc.t = "str" THEN <<desc.s>>
                ELSE <<>>
        mesh_terms ==
            IF ~truthy(mesh_list) THEN <<>>
            ELSE IF mesh_list.t = "list"
            THEN flatten([i \in DOMAIN mesh_list.items |->
                            IF mesh_list.items[i].t = "dict"
                            THEN term(mesh_list.items[i], TRUE) ELSE <<>>])
            ELSE IF mesh_list.t = "dict" THEN term(mesh_list, FALSE)
            ELSE <<>>
    IN  join(mesh_terms, SemiSpace)

\* the entries one item of a Keyword or PublicationType list adds
text_item(x) ==
    IF x.t = "dict" THEN <<str(dict_get(x, "#text", Str(<<>>)))>>
    ELSE IF x.t = "str" THEN <<x.s>>
    ELSE <<>>

\* Keywords of extract_fields
json_keywords(leaf) ==
    LET kw_list == safe_get_value(leaf)
        keywords ==
            IF ~truthy(kw_list) THEN <<>>
            ELSE IF kw_list.t = "list"
            THEN flatten([i \in DOMAIN kw_list.items |->
                            text_item(kw_list.items[i])])
            ELSE text_item(kw_list)
    IN  join(keywords, SemiSpace)

\* Pub_Types of extract_fields: a single PublicationType that is a plain
\* string adds nothing
json_pub_types(leaf) ==
    LET pt_list == safe_get_value(leaf)
        pub_types ==
            IF ~truthy(pt_list) THEN <<>>
            ELSE IF pt_list.t = "list"
            THEN flatten([i \in DOMAIN pt_list.items |->
                            text_item(pt_list.items[i])])
            ELSE IF pt_list.t = "dict" THEN text_item(pt_list)
            ELSE <<>>
    IN  join(pub_types, SemiSpace)

\* extract_fields with the Abstract, DOI, Authors, MeSH_Terms, Keywords
\* and Pub_Types of its row; the degraded row has them all ''
extract_record(pmid, json_str) ==
    LET r == extract_fields(pmid, json_str)
        full == ~r.raised /\ json_loads(json_str).ok
        data == json_str.doc
    IN  [raised |-> r.raised,
         row |-> [PMID |-> r.row.PMID, Year |-> r.row.Year,
                  Abstract |-> IF full THEN json_abstract(data.abstract) ELSE <<>>,
                  DOI |-> IF full THEN json_doi(data.ids) ELSE <<>>,
                  Authors |-> IF full THEN json_authors(data.authors) ELSE <<>>,
                  MeSH_Terms |-> IF full THEN json_mesh(data.mesh) ELSE <<>>,
                  Keywords |-> IF full THEN json_keywords(data.keywords) ELSE <<>>,
                  Pub_Types |-> IF full THEN json_pub_types(data.pub_types) ELSE <<>>]]

\* ------------------------------------------------------ source files

T7       == <<"7">>
T8       == <<"8">>
TBad     == <<"x", "7">>
T2015    == <<"2", "0", "1", "5">>
T1998Jan == <<"1", "9", "9", "8", " ", "J">>

\* PubmedArticle elements a baseline file may hold
xNorm   == [medline |-> TRUE, article |-> TRUE, pmid |-> Some(T7),
            pub_date |-> Some([Year |-> Some(T2015), MedlineDate |-> None])]
xNoYear == [medline |-> TRUE, article |-> TRUE, pmid |-> Some(T8),
            pub_date |-> None]
xBadId  == [medline |-> TRUE, article |-> TRUE, pmid |-> Some(TBad),
            pub_date |-> Some([Year |-> Some(T2015), MedlineDate |-> None])]
xNoId   == [medline |-> TRUE, article |-> TRUE, pmid |-> None,
            pub_date |-> Some([Year |-> None, MedlineDate |-> Some(T1998Jan)])]
XmlRecords == {xNorm, xNoYear, xBadId, xNoId}

\* JSON texts a v1 parquet file may hold in its JSON column
JsonText(valid, doc) == [fmt |-> "json", valid |-> valid, doc |-> doc]
jNorm   == JsonText(TRUE, [t |-> "dict", pmid |-> Some(T7),
              pub_date |-> Some([Year |-> Some(T2015), MedlineDate |-> None])])
jNoYear == JsonText(TRUE, [t |-> "dict", pmid |-> None, pub_date |-> None])
jBad    == JsonText(FALSE, [t |-> "none"])
jList   == JsonText(TRUE, [t |-> "list"])
\* rows {PMID, JSON} of the v1 parquet files
ParquetRecords ==
    { [PMID |-> T7, JSON |-> jNorm], [PMID |-> T8, JSON |-> jNoYear],
      [PMID |-> TBad, JSON |-> jBad], [PMID |-> T8, JSON |-> jList] }

RecordsOf(p) == IF p = "xml" THEN XmlRecords ELSE ParquetRecords

Streams(S) == UNION { [1..n -> S] : n \in 0..MaxRecs }

\* A source file: the records its decode yields, and whether the decode
\* then fails (a truncated .xml.gz raises after the records before the
\* cut; an unreadable parquet file raises in read_table before any record)
Contents(p) ==
    { c \in [recs : Streams(RecordsOf(p)), corrupt : BOOLEAN] :
        p = "parquet" /\ c.corrupt => c.recs = <<>> }

\* file names: a name is its tokens, the suffixes being tokens of their own
Suffixes == {".xml", ".gz", ".parquet"}
XmlNames == { <<"pubmed", v, "n", k, ".xml", ".gz">> :
                v \in {"24", "25"}, k \in {"1", "2", "3"} }
ParquetNames == { <<b>> \o s : b \in {"pubmed25n1", "pubmed25n2"},
                    s \in { <<".parquet">>, <<".xml", ".parquet">> } }

\* the file list: sorted(set(...)) of the listing, sorted(glob('*.parquet'))
file_name(p, f) ==
    IF p = "xml" THEN <<"pubmed", "25", "n", ToString(f), ".xml", ".gz">>
    ELSE IF f % 2 = 1 THEN <<"pubmed25n" \o ToString((f + 1) \div 2), ".parquet">>
    ELSE <<"pubmed25n" \o ToString(f \div 2), ".xml", ".parquet">>

\* Path.stem: the name without its last suffix
stem(name) ==
    IF Len(name) > 1 /\ name[Len(name)] \in Suffixes
    THEN SubSeq(name, 1, Len(name) - 1) ELSE name

\* str.replace('.xml', '')
replace_xml(name) == SelectSeq(name, LAMBDA t : t # ".xml")

\* mutant: both scripts strip '.xml' from the stem
out_name_replace(p, name) == replace_xml(stem(name)) \o <<".parquet">>

\* out_name of process_xml_file / process_parquet_file
out_name(p, name) ==
    IF p = "xml" THEN replace_xml(stem(name)) \o <<".parquet">>
    ELSE stem(name) \o <<".parquet">>

\* out_path = output_dir / f'year={year}' / out_name
out_path(p, name, year) ==
    [dir |-> "year=" \o ToString(year), name |-> out_name(p, name)]

\* str(xml_gz_path), str(input_path)
source_path(p, name) ==
    <<IF p = "xml" THEN "download/baseline/" ELSE "brick/pubmed.parquet/">> \o name

\* ------------------------------------------------ routing and decoding

\* mutant: the key is read under a name the row does not have
partition_key_missing(record) == 0

\* year = record['Year'] or 0
partition_key(record) ==
    IF record.Year = None \/ record.Year = Some(0) THEN 0 ELSE record.Year[1]

\* mutant: a row without a year is skipped
route_drop_null(acc, record) ==
    LET year == partition_key(record)
    IN  IF record.Year = None THEN acc
        ELSE IF year \in DOMAIN acc.buckets
        THEN [acc EXCEPT !.buckets[year] = Append(@, record)]
        ELSE [acc EXCEPT
                !.order = Append(@, year),
                !.buckets = [k \in DOMAIN acc.buckets \cup {year} |->
                               IF k = year THEN <<record>> ELSE acc.buckets[k]]]

\* if year not in records_by_year: records_by_year[year] = []
\* records_by_year[year].append(record)
\* (order: the keys in insertion order, the order .items() iterates in)
route(acc, record) ==
    LET year == partition_key(record)
    IN  IF year \in DOMAIN acc.buckets
        THEN [acc EXCEPT !.buckets[year] = Append(@, record)]
        ELSE [acc EXCEPT
                !.order = Append(@, year),
                !.buckets = [k \in DOMAIN acc.buckets \cup {year} |->
                               IF k = year THEN <<record>> ELSE acc.buckets[k]]]

NoBuckets == [order |-> <<>>, buckets |-> <<>>, total |-> 0, raised |-> FALSE]

\* mutant: total_records += 1 for a record that gave no row as well
RECURSIVE xml_loop_counts_dropped(_, _)
xml_loop_counts_dropped(recs, acc) ==
    IF recs = <<>> THEN acc
    ELSE
        LET record == extract_article_fields(Head(recs))
            counted == [acc EXCEPT !.total = @ + 1]
        IN  IF record # None
            THEN xml_loop_counts_dropped(Tail(recs), route(counted, record[1]))
            ELSE xml_loop_counts_dropped(Tail(recs), counted)

\* the iterparse loop of process_xml_file
RECURSIVE xml_loop(_, _)
xml_loop(recs, acc) ==
    IF recs = <<>> THEN acc
    ELSE
        LET record == extract_article_fields(Head(recs))
        IN  IF record # None
            THEN xml_loop(Tail(recs),
                          [route(acc, record[1]) EXCEPT !.total = @ + 1])
            ELSE xml_loop(Tail(recs), acc)

\* the zip(pmids, jsons) loop of process_parquet_file; an exception of
\* extract_fields leaves the loop and the function
RECURSIVE parquet_loop(_, _)
parquet_loop(recs, acc) ==
    IF recs = <<>> THEN acc
    ELSE
        LET r == extract_fields(Head(recs).PMID, Head(recs).JSON)
        IN  IF r.raised THEN [acc EXCEPT !.raised = TRUE]
            ELSE parquet_loop(Tail(recs),
                              [route(acc, r.row) EXCEPT !.total = @ + 1])

\* ------------------------------------------------------- task results

DecodeError  == <<"decode error">>
WriteError   == <<"write error">>
ExtractError == <<"AttributeError">>
DownloadError(name) == <<"Download failed for ">> \o name

NoYears == <<>>

\* an exception leaving the task: future.result() raises it in main
raised(e) ==
    [kind |-> "raised", file |-> None, error |-> e,
     records |-> 0, years |-> NoYears]

\* {'file': str(xml_gz_path), 'records': total_records, 'years': {}}
\* {'input_file': str(input_path), 'records': len(pmids), 'years': {}}
new_stats(file, records) ==
    [kind |-> "stats", file |-> Some(file), error |-> <<>>,
     records |-> records, years |-> NoYears]

\* mutant: the decode loop without its try/except
xml_decode_raises(file) == raised(DecodeError)

\* return {'error': str(e), 'file': str(xml_gz_path), 'records': 0}
xml_decode_failed(file) ==
    [kind |-> "error", file |-> Some(file), error |-> DecodeError,
     records |-> 0, years |-> NoYears]

\* return {'error': f'Download failed for {filename}', 'records': 0}
download_failed(name) ==
    [kind |-> "error", file |-> None, error |-> DownloadError(name),
     records |-> 0, years |-> NoYears]

Pending ==
    [st |-> "pending", order |-> <<>>, buckets |-> <<>>, written |-> 0,
     result |-> [kind |-> "none", file |-> None, error |-> <<>>,
                 records |-> 0, years |-> NoYears]]

Finished(result) ==
    [st |-> "finished", order |-> <<>>, buckets |-> <<>>, written |-> 0,
     result |-> result]

\* after the decode loop: the stats dict is built and the write loop
\* starts; with no bucket the loop is empty and the stats are returned
Decoded(acc, stats) ==
    IF acc.order = <<>> THEN Finished(stats)
    ELSE [st |-> "running", order |-> acc.order, buckets |-> acc.buckets,
          written |-> 0, result |-> stats]

\* mutant: the except branch goes on to the write loop with the records
\* decoded before the failure
process_xml_file_partial(name, c) ==
    LET acc == xml_loop(c.recs, NoBuckets)
    IN  Decoded(acc, IF c.corrupt
                     THEN xml_decode_failed(source_path("xml", name))
                     ELSE new_stats(source_path("xml", name), acc.total))

\* process_xml_file up to the write loop
process_xml_file(name, c) ==
    IF c.corrupt THEN Finished(xml_decode_failed(source_path("xml", name)))
    ELSE LET acc == xml_loop(c.recs, NoBuckets)
         IN  Decoded(acc, new_stats(source_path("xml", name), acc.total))

\* process_parquet_file up to the write loop
process_parquet_file(name, c) ==
    IF c.corrupt THEN Finished(raised(DecodeError))
    ELSE LET acc == parquet_loop(c.recs, NoBuckets)
         IN  IF acc.raised THEN Finished(raised(ExtractError))
             ELSE Decoded(acc, new_stats(source_path("parquet", name),
                                         Len(c.recs)))

\* arrays[col].append(rec.get(col)) for col in SCHEMA.names; pa.table(...)
build_table(records) ==
    [i \in 1..Len(records) |->
        [PMID |-> records[i].PMID, Year |-> records[i].Year,
         JSON |-> records[i].JSON]]

\* mutant: an existing partition file is appended to
write_table_append(st, out, table) ==
    [q \in DOMAIN st \cup {out} |->
        IF q # out THEN st[q]
        ELSE IF out \in DOMAIN st THEN st[out] \o table ELSE table]

\* pq.write_table(table, out_path): the file is created or replaced
write_table(st, out, table) ==
    [q \in DOMAIN st \cup {out} |-> IF q = out THEN table ELSE st[q]]

\* the partition files of one source file in the output tree
files_of(st, name) ==
    { <<q, st[q]>> : q \in { q \in DOMAIN st : q.name = out_name(path, name) } }

\* ------------------------------------------------------------- main()

\* total_records += stats['records'], only for a result without 'error'
\* that future.result() returned
contribution(result) == IF result.kind = "stats" THEN result.records ELSE 0

\* year_totals[year] = year_totals.get(year, 0) + count
add_years(totals, result) ==
    IF result.kind # "stats" THEN totals
    ELSE [y \in DOMAIN totals \cup DOMAIN result.years |->
            (IF y \in DOMAIN totals THEN totals[y] ELSE 0)
          + (IF y \in DOMAIN result.years THEN result.years[y] ELSE 0)]

\* mutant: the except branch prints the error without the file name
report_line_unnamed(p, i, name, result) ==
    [i |-> i, n |-> NumFiles,
     file |-> IF result.kind = "raised" THEN <<>> ELSE name,
     tag |-> IF result.kind = "stats" THEN "Processed"
             ELSE IF p = "parquet" THEN "ERROR processing"
             ELSE IF result.kind = "error" THEN "ERROR" ELSE "EXCEPTION",
     msg |-> result.error,
     records |-> IF result.kind = "stats" THEN result.records ELSE 0]

\* the line the collection loop prints for one completed future
report_line(p, i, name, result) ==
    [i |-> i, n |-> NumFiles, file |-> name,
     tag |-> IF result.kind = "stats" THEN "Processed"
             ELSE IF p = "parquet" THEN "ERROR processing"
             ELSE IF result.kind = "error" THEN "ERROR" ELSE "EXCEPTION",
     msg |-> result.error,
     records |-> contribution(result)]

\* mutant: the metadata is written from inside the collection loop
some_done == \E f \in Files : task[f].st = "collected"

\* the with-block is left, and the metadata written, once as_completed
\* has yielded every future and the executor has shut down
all_done == \A f \in Files : task[f].st = "collected"

\* sorted(keys)
RECURSIVE sorted(_)
sorted(S) ==
    IF S = {} THEN <<>>
    ELSE LET m == CHOOSE m \in S : \A k \in S : m <= k
         IN  <<m>> \o sorted(S \ {m})

\* the baseline script prints the last SampleYears years only
SampleYears == 10

\* keys[-n:]
last(keys, n) ==
    SubSeq(keys, IF Len(keys) > n THEN Len(keys) - n + 1 ELSE 1, Len(keys))

\* the prints after the with-block: "=== Complete ===", the total, the
\* year distribution and, after the metadata is written, its path
report(p, total, totals) ==
    LET keys == IF p = "xml" THEN last(sorted(DOMAIN totals), SampleYears)
                ELSE sorted(DOMAIN totals)
    IN  <<[tag |-> "Total records", year |-> 0, count |-> total]>>
        \o [i \in DOMAIN keys |->
              [tag |-> "year", year |-> keys[i], count |-> totals[keys[i]]]]
        \o <<[tag |-> "Metadata written", year |-> 0, count |-> 0]>>

\* {str(k): v for k, v in year_totals.items()}; json.dump writes the int
\* keys of the parquet script as strings too
year_distribution(totals) ==
    [s \in { ToString(y) : y \in DOMAIN totals } |->
        totals[CHOOSE y \in DOMAIN totals : ToString(y) = s]]

new_metadata(p, total, totals) ==
    IF p = "xml"
    THEN [total_records |-> total,
          year_distribution |-> year_distribution(totals),
          schema_version |-> "2.0",
          source |-> "pubmed25 baseline",
          baseline_date |-> "2025-01-08"]
    ELSE [total_records |-> total,
          year_distribution |-> year_distribution(totals),
          schema_version |-> "2.0",
          source |-> "reprocessed from v1 parquet"]

\* ------------------------------------------ records under extraction

T0     == <<"0">>
TNeg7  == <<"-", "7">>
TJan   == <<"J", "a", "n">>
TSmith == <<"S", "m">>
TDoe   == <<"D", "o">>
TJ     == <<"J">>
TJc    == <<"J", ",">>
Ta     == <<"a">>
Tb     == <<"b">>
TLabel == <<"L">>
Td1    == <<"d", "1">>
Td2    == <<"d", "2">>
TDoi   == <<"d", "o", "i">>

\* the values a multi-valued substructure takes
Lists(S) == UNION { [1..n -> S] : n \in 0..MaxItems }

\* the text of an optional child or attribute
Texts(S) == {None} \cup { Some(s) : s \in S }

\* PubDate elements, and the PubDate objects of the JSON documents
PubDates ==
    {None} \cup { Some(d) : d \in [Year : Texts({T2015, T0, TBad}),
                                  MedlineDate : Texts({T1998Jan, TJan})] }

\* AbstractText, ArticleId and Author elements
XmlAbstractTexts == [Label : Texts({TLabel}), text : {Ta, Tb}]
XmlArticleIds ==
    [IdType : Texts({TDoi, <<"D", "O", "I">>}), text : Texts({Td1})]
    \cup {[IdType |-> Some(TDoi), text |-> Some(Td2)]}
XmlAuthors ==
    [LastName : Texts({TSmith}), ForeName : Texts({<<>>, TJ})]
    \cup {[LastName |-> Some(TDoe), ForeName |-> Some(TJc)]}

\* a PubmedArticle with an identifier and nothing else
BaseElem ==
    [medline |-> TRUE, article |-> TRUE, pmid |-> Some(T7), pub_date |-> None,
     abstract |-> None, pubmed_data |-> TRUE, ids |-> <<>>, ref_ids |-> <<>>,
     authors |-> <<>>]

\* the PubmedArticle elements given to extract_article_fields: one
\* substructure varies at a time
Elements ==
    { [BaseElem EXCEPT !.medline = FALSE], [BaseElem EXCEPT !.article = FALSE],
      [BaseElem EXCEPT !.pubmed_data = FALSE] }
    \cup { [BaseElem EXCEPT !.pmid = t] : t \in Texts({<<>>, T7, TBad, TNeg7}) }
    \cup { [BaseElem EXCEPT !.pub_date = d] : d \in PubDates }
    \cup { [BaseElem EXCEPT !.abstract = Some(a)] : a \in Lists(XmlAbstractTexts) }
    \cup { [BaseElem EXCEPT !.ids = i, !.ref_ids = r] :
             i \in Lists(XmlArticleIds),
             r \in { <<>>, <<[IdType |-> Some(TDoi), text |-> Some(Tb)]>> } }
    \cup { [BaseElem EXCEPT !.authors = a] : a \in Lists(XmlAuthors) }

\* a key of a JSON object, when its text is there
Key(k, text) == IF text = None THEN <<>> ELSE k :> Str(text[1])

\* the JSON objects xmltodict makes of the elements above, and the plain
\* strings it makes of elements without attributes
JsonAbstractTexts ==
    { Dict(Key("@Label", x.Label) @@ ("#text" :> Str(x.text))) :
        x \in XmlAbstractTexts } \cup {Str(Ta)}
JsonArticleIds ==
    { Dict(Key("@IdType", x.IdType) @@ Key("#text", x.text)) :
        x \in XmlArticleIds }
JsonAuthors ==
    { Dict(Key("LastName", x.LastName) @@ Key("ForeName", x.ForeName)) :
        x \in XmlAuthors }
JsonMeshHeadings ==
    { Dict(<<>>), Dict("DescriptorName" :> Str(Ta)),
      Dict("DescriptorName" :> Dict("#text" :> Str(Tb))) }
JsonTexts == { Str(Ta), Dict("#text" :> Str(Tb)) }

\* the shapes of a multi-valued substructure: missing, a single object,
\* a list of objects
Shapes(S) ==
    {None} \cup { Some(x) : x \in S } \cup { Some(List(l)) : l \in Lists(S) }

\* a PubmedArticle object with nothing in it
BaseDoc ==
    [t |-> "dict", pmid |-> None, pub_date |-> None, abstract |-> None,
     ids |-> None, authors |-> None, mesh |-> None, keywords |-> None,
     pub_types |-> None]

Docs ==
    { [BaseDoc EXCEPT !.pmid = t] : t \in Texts({T8, TBad}) }
    \cup { [BaseDoc EXCEPT !.pub_date = d] : d \in PubDates }
    \cup { [BaseDoc EXCEPT !.abstract = v] : v \in Shapes(JsonAbstractTexts) }
    \cup { [BaseDoc EXCEPT !.ids = v] : v \in Shapes(JsonArticleIds) }
    \cup { [BaseDoc EXCEPT !.authors = v] : v \in Shapes(JsonAuthors) }
    \cup { [BaseDoc EXCEPT !.mesh = v] : v \in Shapes(JsonMeshHeadings) }
    \cup { [BaseDoc EXCEPT !.keywords = v] : v \in Shapes(JsonTexts) }
    \cup { [BaseDoc EXCEPT !.pub_types = v] : v \in Shapes(JsonTexts) }

\* the (PMID, JSON) pairs given to extract_fields
Blobs ==
    { [PMID |-> id, JSON |-> JsonText(TRUE, d)] : id \in {T7, TBad}, d \in Docs }
    \cup { [PMID |-> id, JSON |-> j] : id \in {T7, TBad}, j \in {jBad, jList} }

\* the source files a new invocation finds
refetched(p, c) ==
    IF p = "xml"
    THEN { [f \in Files |-> IF f \in S THEN [c[f] EXCEPT !.corrupt = TRUE]
                                       ELSE c[f]] : S \in SUBSET Files }
    ELSE {c}

\* --------------------------------------------------------------- Init

NotCalled == [given |-> FALSE]

Init ==
    /\ path \in {"xml", "parquet"}
    /\ content \in [Files -> Contents(path)]
    /\ run = 1
    /\ task = [f \in Files |-> Pending]
    /\ store = <<>>
    /\ total_records = 0
    /\ year_totals = <<>>
    /\ log = <<>>
    /\ metadata = None
    /\ meta_writes = 0
    /\ pc = "collect"
    /\ writers = <<>>
    /\ first_run = [f \in Files |-> None]
    /\ summary = <<>>
    /\ wrote = [f \in Files |-> 0]
    /\ article_elem = NotCalled
    /\ blob = NotCalled
    /\ xml_out = None
    /\ json_out = None

\* ------------------------------------------------------------ actions

Running == { f \in Files : task[f].st = "running" }

\* history of a task that returned its stats
Returned(f, t, st) ==
    IF t.st = "finished" /\ t.result.kind = "stats" /\ first_run[f] = None
    THEN [first_run EXCEPT ![f] =
            Some([run |-> run, files |-> files_of(st, file_name(path, f))])]
    ELSE first_run

\* a worker takes the task of file f: download_and_process_file calls
\* process_xml_file, or process_parquet_file runs, up to the write loop
Start(f) ==
    /\ pc = "collect"
    /\ task[f].st = "pending"
    /\ Cardinality(Running) < MaxWorkers
    /\ LET t == IF path = "xml"
                THEN process_xml_file(file_name(path, f), content[f])
                ELSE process_parquet_file(file_name(path, f), content[f])
       IN  /\ task' = [task EXCEPT ![f] = t]
           /\ first_run' = Returned(f, t, store)
    /\ UNCHANGED <<extraction, summary, path, content, run, store, total_records,
                   year_totals, log, metadata, meta_writes, pc, writers,
                   wrote>>

\* download_and_process_file: the file is not there and download_file
\* returns False (whether the file is there is left open: the download
\* may fail for any pending task)
DownloadFails(f) ==
    /\ pc = "collect"
    /\ path = "xml"
    /\ task[f].st = "pending"
    /\ Cardinality(Running) < MaxWorkers
    /\ task' = [task EXCEPT ![f] = Finished(download_failed(file_name(path, f)))]
    /\ UNCHANGED <<extraction, summary, path, content, run, store, total_records,
                   year_totals, log, metadata, meta_writes, pc, writers,
                   first_run, wrote>>

\* one iteration of the write loop; after the last one the stats are
\* returned
WritePartition(f) ==
    /\ task[f].st = "running"
    /\ LET me == task[f]
           year == me.order[me.written + 1]
           records == me.buckets[year]
           out == out_path(path, file_name(path, f), year)
           stats == [me.result EXCEPT !.years =
                       [y \in DOMAIN @ \cup {year} |->
                           IF y = year THEN Len(records) ELSE @[y]]]
           t == IF me.written + 1 = Len(me.order) THEN Finished(stats)
                ELSE [me EXCEPT !.written = @ + 1, !.result = stats]
           st == write_table(store, out, build_table(records))
       IN  /\ store' = st
           /\ writers' = [q \in DOMAIN writers \cup {out} |->
                            (IF q \in DOMAIN writers THEN writers[q] ELSE {})
                            \cup (IF q = out THEN {f} ELSE {})]
           /\ task' = [task EXCEPT ![f] = t]
           /\ first_run' = Returned(f, t, st)
           /\ wrote' = [wrote EXCEPT ![f] = @ + Len(records)]
    /\ UNCHANGED <<extraction, summary, path, content, run, total_records,
                   year_totals, log, metadata, meta_writes, pc>>

\* mkdir, pa.table or pq.write_table raises: nothing catches it inside
\* the task; the partitions written before stay, the failing one is
\* left as it was
WriteFails(f) ==
    /\ task[f].st = "running"
    /\ task' = [task EXCEPT ![f] = Finished(raised(WriteError))]
    /\ UNCHANGED <<extraction, summary, path, content, run, store, total_records,
                   year_totals, log, metadata, meta_writes, pc, writers,
                   first_run, wrote>>

\* one iteration of the as_completed loop of main()
Collect(f) ==
    /\ pc = "collect"
    /\ task[f].st = "finished"
    /\ total_records' = total_records + contribution(task[f].result)
    /\ year_totals' = add_years(year_totals, task[f].result)
    /\ log' = Append(log, report_line(path, Len(log) + 1,
                                      file_name(path, f), task[f].result))
    /\ task' = [task EXCEPT ![f].st = "collected"]
    /\ UNCHANGED <<extraction, summary, path, content, run, store, metadata,
                   meta_writes, pc, writers, first_run, wrote>>

\* the end of main(): the summary and metadata.json
Finalize ==
    /\ pc = "collect"
    /\ all_done
    /\ metadata' = Some(new_metadata(path, total_records, year_totals))
    /\ meta_writes' = meta_writes + 1
    /\ pc' = "done"
    /\ summary' = report(path, total_records, year_totals)
    /\ UNCHANGED <<extraction, path, content, run, task, store,
                   total_records, year_totals, log, writers, first_run,
                   wrote>>

\* the script is invoked again over the same file list and output root.
\* The baseline script has unlinked each .xml.gz it processed (keep_xml is
\* off by default) and downloads it again: a download may now be cut
\* short, which the decode of the file then meets after the records before
\* the cut. The v1 parquet files stay as they are.
Rerun ==
    /\ pc = "done"
    /\ run < MaxRuns
    /\ run' = run + 1
    /\ task' = [f \in Files |-> Pending]
    /\ total_records' = 0
    /\ year_totals' = <<>>
    /\ log' = <<>>
    /\ meta_writes' = 0
    /\ pc' = "collect"
    /\ wrote' = [f \in Files |-> 0]
    /\ content' \in refetched(path, content)
    /\ summary' = <<>>
    /\ UNCHANGED <<extraction, path, store, metadata, writers, first_run>>

Next ==
    \/ \E f \in Files : Start(f)
    \/ \E f \in Files : DownloadFails(f)
    \/ \E f \in Files : WritePartition(f)
    \/ \E f \in Files : WriteFails(f)
    \/ \E f \in Files : Collect(f)
    \/ Finalize
    \/ Rerun

Spec == Init /\ [][Next]_vars

\* ------------------------------------------ the extractors on a record

ExtractInit ==
    /\ path = "xml"
    /\ content = [f \in Files |-> [recs |-> <<>>, corrupt |-> FALSE]]
    /\ run = 1
    /\ task = [f \in Files |-> Pending]
    /\ store = <<>>
    /\ total_records = 0
    /\ year_totals = <<>>
    /\ log = <<>>
    /\ metadata = None
    /\ meta_writes = 0
    /\ pc = "collect"
    /\ writers = <<>>
    /\ first_run = [f \in Files |-> None]
    /\ summary = <<>>
    /\ wrote = [f \in Files |-> 0]
    /\ article_elem \in Elements
    /\ blob \in Blobs
    /\ xml_out = None
    /\ json_out = None

\* record = extract_article_fields(elem)
ExtractArticle ==
    /\ xml_out = None
    /\ xml_out' = Some(extract_article(article_elem))
    /\ UNCHANGED <<pipeline, article_elem, blob, json_out>>

\* record = extract_fields(str(pmid), json_str)
ExtractFields ==
    /\ json_out = None
    /\ json_out' = Some(extract_record(blob.PMID, blob.JSON))
    /\ UNCHANGED <<pipeline, article_elem, blob, xml_out>>

ExtractNext == ExtractArticle \/ ExtractFields

ExtractSpec == ExtractInit /\ [][ExtractNext]_vars

\* ------------------------------------------------------------- claims

Name(f) == file_name(path, f)

\* the sum of the values of a dict
RECURSIVE Sum(_)
Sum(f) ==
    IF DOMAIN f = {} THEN 0
    ELSE LET k == CHOOSE k \in DOMAIN f : TRUE
         IN  f[k] + Sum([j \in DOMAIN f \ {k} |-> f[j]])

Res(f) == task[f].result
Ended(f) == task[f].st \in {"finished", "collected"}

\* the rows the extractor yields for a file's records, record by record
RowsOf(f) ==
    LET recs == content[f].recs
    IN  IF path = "xml"
        THEN LET ex == SelectSeq([i \in DOMAIN recs |->
                                     extract_article_fields(recs[i])],
                                 LAMBDA e : e # None)
             IN  [i \in DOMAIN ex |-> ex[i][1]]
        ELSE [i \in DOMAIN recs |->
                extract_fields(recs[i].PMID, recs[i].JSON).row]

\* the key the specification gives a row: its year, 0 for a null year
KeyOf(row) == IF row.Year = None THEN 0 ELSE row.Year[1]

RowsWithKey(f, y) == SelectSeq(RowsOf(f), LAMBDA r : KeyOf(r) = y)

StatsRows(f) == IF Res(f).kind = "stats" THEN Res(f).records ELSE 0

Collected == { f \in Files : task[f].st = "collected" }

\* the statistics of the collected tasks are what main() has summed
Aggregated ==
    /\ total_records = Sum([g \in Collected |-> StatsRows(g)])
    /\ \A y \in DOMAIN year_totals :
         year_totals[y] =
           Sum([g \in Collected |->
                  IF Res(g).kind = "stats" /\ y \in DOMAIN Res(g).years
                  THEN Res(g).years[y] ELSE 0])
    /\ \A g \in Collected :
         Res(g).kind = "stats" => DOMAIN Res(g).years \subseteq DOMAIN year_totals

\* file g was processed: its statistics are returned and its partition
\* files hold its rows
Processed(g) ==
    /\ Res(g).kind = "stats"
    /\ Sum(Res(g).years) = Len(RowsOf(g))
    /\ \A y \in DOMAIN Res(g).years :
         LET q == out_path(path, Name(g), y)
         IN  /\ q \in DOMAIN store
             /\ store[q] = RowsWithKey(g, y)
             /\ Res(g).years[y] = Len(store[q])

\* a failure of the environment hit g's own task
EnvFailure(g) == Res(g).error \in {WriteError, DownloadError(Name(g))}

\* C1. Partition completeness: at the end of a run the per-year counts of
\* the Run Metadata sum to its total row count, which is the sum of the
\* row counts of the collected per-file statistics, which is the number
\* of Source Records decoded in the files whose task returned statistics.
C1_PartitionCompleteness ==
    pc = "done" =>
        LET md == metadata[1]
        IN  /\ Sum(md.year_distribution) = md.total_records
            /\ md.total_records = Sum([f \in Files |-> StatsRows(f)])
            /\ md.total_records =
                 Sum([f \in Files |-> IF Res(f).kind = "stats"
                                       THEN Len(content[f].recs) ELSE 0])

\* C2. Fault isolation: a baseline file whose decode fails ends with the
\* failure descriptor naming the file and the error, and at the end of the
\* run every other file whose own task met no failure has been processed:
\* statistics returned, partitions written, counts aggregated.
C2_FaultIsolation ==
    /\ \A f \in Files :
         path = "xml" /\ Ended(f) /\ content[f].corrupt
                      /\ Res(f).error # DownloadError(Name(f))
         => /\ Res(f).kind = "error"
            /\ Res(f).file = Some(source_path(path, Name(f)))
            /\ Res(f).error = DecodeError
            /\ Res(f).records = 0
    /\ pc = "done" =>
         /\ Collected = Files
         /\ Aggregated
         /\ \A g \in Files :
              path = "xml" /\ ~content[g].corrupt /\ ~EnvFailure(g)
              => Processed(g)

C2_Witness ==
    /\ pc = "done"
    /\ path = "xml"
    /\ \E f, g \in Files :
         /\ content[f].corrupt /\ Res(f).kind = "error"
         /\ Res(f).error = DecodeError
         /\ ~content[g].corrupt /\ Res(g).kind = "stats"
         /\ Cardinality(DOMAIN Res(g).years) = 2

C4_AggregationBarrier ==
    /\ meta_writes <= 1
    /\ pc = "done" <=> meta_writes = 1
    /\ meta_writes = 1 =>
         /\ \A f \in Files : task[f].st = "collected"
         /\ metadata = Some(new_metadata(path, total_records, year_totals))
    /\ (run = 1 /\ meta_writes = 0) => metadata = None

C4_Witness ==
    /\ pc = "done" /\ meta_writes = 1
    /\ \E f, g \in Files :
         Res(f).kind = "raised" /\ Res(g).kind = "stats" /\ Res(g).records > 0

NamesOf(p) == IF p = "xml" THEN XmlNames ELSE ParquetNames

\* C5. No path contention: every output path is written by the task of
\* one source file only, the one whose name the path is derived from, and
\* distinct source file names give distinct output names.
C5_NoPathContention ==
    /\ \A q \in DOMAIN writers :
         /\ Cardinality(writers[q]) = 1
         /\ \A f \in writers[q] : q.name = out_name(path, Name(f))
    /\ \A f, g \in Files :
         f # g => Name(f) # Name(g)
               /\ out_name(path, Name(f)) # out_name(path, Name(g))
    /\ \A m, n \in NamesOf(path) :
         m # n => out_name(path, m) # out_name(path, n)

C5_Witness ==
    \E q, r \in DOMAIN writers :
        /\ q # r /\ q.dir = r.dir
        /\ writers[q] # writers[r]
        /\ \E f, g \in Running : f # g

\* C6. Null-year routing: the buckets of a task hold every row the
\* extractor produced, each in the one bucket keyed by its year, or by 0
\* when its year is null, so the bucket sizes sum to the rows produced.
C6_NullYearRouting ==
    \A f \in Files :
        task[f].st = "running" =>
            LET b == task[f].buckets
            IN  /\ \A y \in DOMAIN b : b[y] = RowsWithKey(f, y)
                /\ \A i \in DOMAIN RowsOf(f) : KeyOf(RowsOf(f)[i]) \in DOMAIN b
                /\ Sum([y \in DOMAIN b |-> Len(b[y])]) = Len(RowsOf(f))
                /\ Res(f).records = Len(RowsOf(f))

C6_Witness ==
    \E f \in Files :
        /\ task[f].st = "running"
        /\ DOMAIN task[f].buckets = {0, 2015}
        /\ \E i \in DOMAIN task[f].buckets[0] : task[f].buckets[0][i].Year = None

\* C7. Row-level anomalies are absorbed: a baseline file's task that
\* returns statistics has emitted one row for every record of the file,
\* the records with an absent or unparseable identifier or a missing year
\* included.
C7_AnomaliesAbsorbed ==
    \A f \in Files :
        path = "xml" /\ Ended(f) /\ Res(f).kind = "stats"
        => Res(f).records = Len(content[f].recs)

\* C8. The Field Extractor never raises: extract_fields returns a row for
\* every (identifier, blob), the degraded row when the blob does not
\* decode, so no record makes its file's task fail.
C8_ExtractorNeverRaises ==
    \A f \in Files :
        (path = "parquet" /\ task[f].st # "pending" /\ ~content[f].corrupt) =>
            /\ \A i \in DOMAIN content[f].recs :
                 LET r == content[f].recs[i]
                 IN  /\ ~extract_fields(r.PMID, r.JSON).raised
                     /\ ~r.JSON.valid =>
                          extract_fields(r.PMID, r.JSON).row =
                            [PMID |-> IF isdigit(r.PMID) THEN DecVal(r.PMID) ELSE 0,
                             Year |-> None, JSON |-> r.JSON]
            /\ Res(f).error # ExtractError

\* the serialized Source Record as the task received it
Original(src) == IF path = "xml" THEN [fmt |-> "xml", doc |-> src] ELSE src.JSON

\* the row the extractor yields for a record, if any
Emits(src, row) ==
    IF path = "xml" THEN extract_article_fields(src) = Some(row)
    ELSE LET r == extract_fields(src.PMID, src.JSON) IN ~r.raised /\ r.row = row

\* C9 as claimed: raw_blob is verbatim on both paths: the JSON column of
\* every stored row is the original serialized record it was extracted from.
C9_RawBlobVerbatim ==
    \A q \in DOMAIN store : \A i \in DOMAIN store[q] :
        \E f \in Files : \E k \in DOMAIN content[f].recs :
            /\ Emits(content[f].recs[k], store[q][i])
            /\ store[q][i].JSON = Original(content[f].recs[k])

\* C9. raw_blob is verbatim on the reprocessing path: the JSON column of
\* every row extract_fields yields, degraded or full, is the input blob.
\* On the baseline path the JSON column is the JSON encoding of the
\* extracted field values of the row.
C9_RawBlobVerbatimParquet ==
    \A q \in DOMAIN store : \A i \in DOMAIN store[q] :
        IF path = "parquet"
        THEN \E f \in Files : \E k \in DOMAIN content[f].recs :
                /\ Emits(content[f].recs[k], store[q][i])
                /\ store[q][i].JSON = content[f].recs[k].JSON
        ELSE store[q][i].JSON =
                json_dumps([PMID |-> store[q][i].PMID, Year |-> store[q][i].Year])

C9_Witness ==
    /\ path = "parquet"
    /\ \E q, r \in DOMAIN store :
         /\ \E i \in DOMAIN store[q] : store[q][i].JSON = jBad
         /\ \E i \in DOMAIN store[r] : store[r][i].JSON = jNorm

\* C10. Idempotent reprocessing: when the task of a source file returns
\* its statistics again, the partition files of that source file are the
\* ones, with the rows, its first successful task left.
C10_Idempotent ==
    \A f \in Files :
        (first_run[f] # None /\ Ended(f) /\ Res(f).kind = "stats")
        => files_of(store, Name(f)) = first_run[f][1].files

C10_Witness ==
    /\ run = 2
    /\ \E f \in Files :
         /\ first_run[f] # None /\ first_run[f][1].run = 1
         /\ Ended(f) /\ Res(f).kind = "stats"
         /\ Cardinality(first_run[f][1].files) = 2

\* the directory f'year={K}' of partition key K
YearDir(K) == "year=" \o ToString(K)

\* C11. Partition directory matches row year: every row stored in a file
\* under directory year=K has Year = K, or a null Year when K = 0; so the
\* rows with Year = K, K not 0, are in files under year=K only, and the
\* files under year=K hold every such row of the files whose task
\* returned statistics.
C11_DirectoryMatchesYear ==
    /\ \A q \in DOMAIN store : \A i \in DOMAIN store[q] :
         LET row == store[q][i]
         IN  /\ q.dir = YearDir(KeyOf(row))
             /\ row.Year = None => q.dir = YearDir(0)
             /\ \A r \in DOMAIN store :
                  (row.Year # None /\ row.Year # Some(0)
                   /\ r.dir # YearDir(row.Year[1]))
                  => \A j \in DOMAIN store[r] : store[r][j].Year # row.Year
    /\ \A f \in Files :
         (Ended(f) /\ Res(f).kind = "stats") =>
            \A i \in DOMAIN RowsOf(f) :
                LET row == RowsOf(f)[i]
                    q == [dir |-> YearDir(KeyOf(row)),
                          name |-> out_name(path, Name(f))]
                IN  /\ q \in DOMAIN store
                    /\ \E j \in DOMAIN store[q] : store[q][j] = row

C11_Witness ==
    /\ pc = "done"
    /\ \E q, r \in DOMAIN store :
         /\ q.dir = YearDir(0) /\ r.dir = YearDir(2015)
         /\ \E i \in DOMAIN store[q] : store[q][i].Year = None
         /\ \E j \in DOMAIN store[r] : store[r][j].Year = Some(2015)
         /\ q.name # r.name

\* the files whose task ended in failure
Failed == { f \in Files : Ended(f) /\ Res(f).kind # "stats" }

\* C12. End-of-run report: at the end of a run that had failed files the
\* report states the total rows, the per-partition counts, the number of
\* failed files, and names every failed file with its reason and no other
\* file as failed.
C12_EndOfRunReport ==
    (pc = "done" /\ Failed # {}) =>
        /\ \E i \in DOMAIN summary :
             summary[i].tag = "Total records" /\ summary[i].count = total_records
        /\ \A y \in DOMAIN year_totals : \E i \in DOMAIN summary :
             /\ summary[i].tag = "year" /\ summary[i].year = y
             /\ summary[i].count = year_totals[y]
        /\ \A f \in Files :
             f \in Failed <=>
                \E i \in DOMAIN log :
                    /\ log[i].file = Name(f) /\ log[i].tag # "Processed"
                    /\ log[i].msg = Res(f).error
        /\ \E i \in DOMAIN summary :
             /\ summary[i].tag \notin {"Total records", "year"}
             /\ summary[i].count = Cardinality(Failed)

\* ---------------------------------------------- claims on the extractors

\* the row each extractor returned
XmlEmitted == xml_out # None /\ xml_out[1] # None
XmlRow == xml_out[1][1]
JsonEmitted ==
    /\ json_out # None /\ ~json_out[1].raised
    /\ blob.JSON.valid /\ blob.JSON.doc.t = "dict"
JsonRow == json_out[1].row
Doc == blob.JSON.doc

\* the JSON object of an element with these attributes and this text
JsonOf(attrs, text) == Dict(attrs @@ Key("#text", text))

\* the shapes in which a list of elements reaches extract_fields: the key
\* missing or an empty list for no element, the object or a one-item list
\* for one element, a list for several
AsJson(objects) ==
    IF objects = <<>> THEN {None, Some(List(<<>>))}
    ELSE {Some(List(objects))}
         \cup (IF Len(objects) = 1 THEN {Some(objects[1])} ELSE {})

\* the one-item list of a single object, a list as it is
AsList(leaf) ==
    IF leaf # None /\ leaf[1].t # "list" THEN Some(List(<<leaf[1]>>)) ELSE leaf

\* C13. Shape uniformity: for each multi-valued substructure, the field
\* extract_fields yields for a single object X is the field it yields for
\* the one-item list [X].
C13_ShapeUniformity ==
    JsonEmitted =>
        /\ JsonRow.Abstract = json_abstract(AsList(Doc.abstract))
        /\ JsonRow.DOI = json_doi(AsList(Doc.ids))
        /\ JsonRow.Authors = json_authors(AsList(Doc.authors))
        /\ JsonRow.MeSH_Terms = json_mesh(AsList(Doc.mesh))
        /\ JsonRow.Keywords = json_keywords(AsList(Doc.keywords))
        /\ JsonRow.Pub_Types = json_pub_types(AsList(Doc.pub_types))

\* the year the resolution order gives a PubDate
ResolvedYear(pub_date) ==
    IF pub_date = None THEN None
    ELSE LET y == pub_date[1].Year
             m == pub_date[1].MedlineDate
         IN  IF y # None /\ isdigit(y[1]) THEN Some(DecVal(y[1]))
             ELSE IF m # None /\ Len(m[1]) >= 4 /\ isdigit(SubSeq(m[1], 1, 4))
                  THEN Some(DecVal(SubSeq(m[1], 1, 4)))
             ELSE None

\* C14. Year resolution order, on both paths: a numeric explicit year is
\* the year and the free-text date is ignored; otherwise the year is the
\* four leading digits of the free-text date, or null.
C14_YearResolution ==
    /\ XmlEmitted => XmlRow.Year = ResolvedYear(article_elem.pub_date)
    /\ JsonEmitted => JsonRow.Year = ResolvedYear(Doc.pub_date)

\* the text of the first identifier tagged exactly "doi", '' without one
RECURSIVE FirstDoi(_)
FirstDoi(ids) ==
    IF ids = <<>> THEN <<>>
    ELSE IF Head(ids).IdType = Some(TDoi)
         THEN (IF Head(ids).text = None THEN <<>> ELSE Head(ids).text[1])
    ELSE FirstDoi(Tail(ids))

IdsAsJson(ids) ==
    AsJson([i \in DOMAIN ids |->
              JsonOf(Key("@IdType", ids[i].IdType), ids[i].text)])

\* C15. DOI is the first match: on both paths the DOI of the row is the
\* text of the first identifier of the record's id list tagged "doi", ''
\* without one, so the two paths agree on the same id list.
C15_DoiFirstMatch ==
    /\ XmlEmitted /\ article_elem.pubmed_data
       => XmlRow.DOI = FirstDoi(article_elem.ids)
    /\ JsonEmitted =>
         \A ids \in Lists(XmlArticleIds) :
            Doc.ids \in IdsAsJson(ids) => JsonRow.DOI = FirstDoi(ids)
    /\ (XmlEmitted /\ JsonEmitted /\ article_elem.pubmed_data
        /\ Doc.ids \in IdsAsJson(article_elem.ids))
       => XmlRow.DOI = JsonRow.DOI

\* "Last, First" per author with a last name, "Last" without a first name
FormattedAuthors(authors) ==
    LET entry(a) ==
            IF a.LastName \in {None, Some(<<>>)} THEN <<>>
            ELSE IF a.ForeName \in {None, Some(<<>>)} THEN <<a.LastName[1]>>
            ELSE <<a.LastName[1] \o CommaSpace \o a.ForeName[1]>>
    IN  join(flatten([i \in DOMAIN authors |-> entry(authors[i])]), SemiSpace)

AuthorsAsJson(authors) ==
    AsJson([i \in DOMAIN authors |->
              Dict(Key("LastName", authors[i].LastName)
                   @@ Key("ForeName", authors[i].ForeName))])

\* C16. Authors formatting: on both paths the authors field is the
\* "; "-join, in source order, of "Last, First" (or "Last") for the
\* authors that have a last name.
C16_AuthorsFormatting ==
    /\ XmlEmitted /\ article_elem.article
       => XmlRow.Authors = FormattedAuthors(article_elem.authors)
    /\ JsonEmitted =>
         \A authors \in Lists(XmlAuthors) :
            Doc.authors \in AuthorsAsJson(authors)
            => JsonRow.Authors = FormattedAuthors(authors)

\* the space-join of "Label: text" or text per segment
AssembledAbstract(texts) ==
    join([i \in DOMAIN texts |->
            IF texts[i].Label \in {None, Some(<<>>)} THEN texts[i].text
            ELSE texts[i].Label[1] \o ColonSpace \o texts[i].text], Space)

AbstractAsJson(texts) ==
    AsJson([i \in DOMAIN texts |->
              JsonOf(Key("@Label", texts[i].Label), Some(texts[i].text))])

\* C17. Abstract assembly: on both paths the abstract is the space-join,
\* in source order, of the segments, labelled ones as "Label: text", for
\* any number of segments, and '' when the abstract is absent.
C17_AbstractAssembly ==
    /\ XmlEmitted /\ article_elem.article
       => XmlRow.Abstract =
            IF article_elem.abstract = None THEN <<>>
            ELSE AssembledAbstract(article_elem.abstract[1])
    /\ JsonEmitted =>
         /\ Doc.abstract = None => JsonRow.Abstract = <<>>
         /\ \A texts \in Lists(XmlAbstractTexts) :
               Doc.abstract \in AbstractAsJson(texts)
               => JsonRow.Abstract = AssembledAbstract(texts)

\* the identifier of a record whose identifier field has this text
IdentifierOf(text) ==
    IF text # None /\ isdigit(text[1]) THEN DecVal(text[1]) ELSE 0

\* C18. Identifier value: the identifier of every emitted row is not
\* negative; it is the parsed integer when the identifier field is there
\* and numeric, and 0 when it is absent or not numeric.
C18_IdentifierValue ==
    /\ XmlEmitted => /\ XmlRow.PMID >= 0
                     /\ XmlRow.PMID = IdentifierOf(article_elem.pmid)
    /\ JsonEmitted =>
         /\ JsonRow.PMID >= 0
         /\ JsonRow.PMID = IdentifierOf(IF Doc.pmid \in {None, Some(<<>>)}
                                         THEN Some(blob.PMID) ELSE Doc.pmid)

\* ------------------------------------------- claims on store and summary

\* the rows the store holds in the partition files a task's statistics name
StoredRows(f) ==
    Sum([y \in DOMAIN Res(f).years |->
           Len(store[out_path(path, Name(f), y)])])

\* C19 as stated. Store and summary agree: at the end of a run the rows in
\* the partition files written for a file during the run are as many as
\* the rows the file contributed to the Run Metadata, and a file whose
\* task failed, a write failure included, has no partition file written
\* by this run.
C19_StoreAndSummaryAgree ==
    pc = "done" =>
        \A f \in Files :
            /\ wrote[f] = contribution(Res(f))
            /\ Res(f).kind # "stats" => wrote[f] = 0

\* C19 amended. For a file whose task returned statistics the rows written
\* for it during the run, which are the rows its partition files hold, are
\* as many as the rows it contributed; a failed file contributed none; it
\* has no partition file written by this run unless a write failed, which
\* leaves the partitions written before it, short of the file's rows; the
\* total of the Run Metadata is the rows written for the files that
\* returned statistics.
C19_StoreAndSummaryAgreeOnSuccess ==
    /\ \A f \in Files :
         Ended(f) =>
            /\ Res(f).kind = "stats" =>
                 /\ wrote[f] = contribution(Res(f))
                 /\ wrote[f] = StoredRows(f)
            /\ Res(f).kind # "stats" =>
                 /\ contribution(Res(f)) = 0
                 /\ Res(f).error # WriteError => wrote[f] = 0
                 /\ Res(f).error = WriteError => wrote[f] < Len(RowsOf(f))
    /\ pc = "done" =>
         /\ metadata[1].total_records =
              Sum([f \in Files |-> contribution(Res(f))])
         /\ metadata[1].total_records =
              Sum([f \in { g \in Files : Res(g).kind = "stats" } |-> wrote[f]])

C19_Witness ==
    /\ pc = "done"
    /\ \E f, g \in Files :
         /\ Res(f).error = WriteError /\ wrote[f] > 0
         /\ Res(g).kind = "stats" /\ wrote[g] > 0
         /\ metadata[1].total_records = wrote[g]

\* the rows held by a task in its write loop
Buffered(f) ==
    Sum([y \in DOMAIN task[f].buckets |-> Len(task[f].buckets[y])])

\* C20. Decode-then-write ordering in the XML path: a partition file of a
\* source file is written only by its task in the write loop, which holds
\* the rows of the whole decoded stream; a task whose decode failed
\* returned the failure descriptor with 0 records, wrote no row, also when
\* records came before the failure, and no step of the run it failed in
\* changes the file's partition files.
C20_DecodeThenWrite ==
    /\ [](path = "xml" =>
            \A f \in Files :
               /\ task[f].st = "running" =>
                    /\ ~content[f].corrupt
                    /\ Buffered(f) = Len(RowsOf(f))
               /\ (Ended(f) /\ content[f].corrupt
                   /\ Res(f).error # DownloadError(Name(f)))
                  => /\ Res(f).kind = "error"
                     /\ Res(f).error = DecodeError
                     /\ Res(f).records = 0
                     /\ wrote[f] = 0)
    /\ [][path = "xml" =>
            \A f \in Files :
               (files_of(store', Name(f)) # files_of(store, Name(f))
                \/ wrote'[f] > wrote[f])
               => /\ task[f].st = "running"
                  /\ ~content[f].corrupt]_vars

C20_Witness ==
    /\ path = "xml"
    /\ run = 2
    /\ pc = "done"
    /\ \E f \in Files :
         /\ content[f].corrupt /\ content[f].recs # <<>>
         /\ Res(f).error = DecodeError
         /\ first_run[f] # None /\ first_run[f][1].run = 1
         /\ files_of(store, Name(f)) = first_run[f][1].files
         /\ files_of(store, Name(f)) # {}

====
